---- MODULE Spec2Model ----
(***************************************************************************)
(* A model of crates/hir_ty/src/lib.rs: the type terms (Ty), their         *)
(* argument lists (Substs, SubstsBuilder), quantification (Binders) and    *)
(* the binder-aware traversal (TypeWalk) with de Bruijn substitution and   *)
(* shifting, function signatures (CallableSig) and the shared storage of   *)
(* the lists (Arc<[..]>).                                                  *)
(*                                                                         *)
(* Every value that can be walked is a record [tag, id, args]:             *)
(*   tag   the variant (of Ty, of GenericPredicate) or the struct name,    *)
(*   id    the payload that is not a list of types, as a tuple of numbers, *)
(*   args  the list the value owns: the Substs of a Ty, the parameters of  *)
(*         a Projection / Opaque, the predicates of a Dyn, the value of a  *)
(*         Binders.                                                        *)
(* A panic (failed assert!, slice index out of bounds) ends the            *)
(* computation: an operation returns [status, val, log] and status says    *)
(* how it ended.                                                           *)
(***************************************************************************)
EXTENDS Integers, Sequences, FiniteSets, TLC

VARIABLES
    value,            \* the value an operation is applied to (self)
    substs,           \* the Substs argument of the last operation
    depth,            \* the DebruijnIndex argument of the last operation
    hist,             \* the operations applied so far, by name
    out,              \* how the last operation ended, and its result
    other,            \* the second operand of equals_ctor
    eq,               \* what equals_ctor returned
    vec,              \* SubstsBuilder.vec
    param_count,      \* SubstsBuilder.param_count
    bstate,           \* the builder: "building", "built", "panicked", "diverged"
    built,            \* the Substs that build() returned
    inserted,         \* every element handed to the builder, in order
    overflow_checks,  \* whether the build checks integer overflow
    sig,              \* the CallableSig a constructor returned
    is_varargs,       \* the is_varargs argument of from_params_and_return
    fn_ty,            \* what Ty::fn_ptr returned
    heap,             \* the Arc<[..]> allocations: their items and strong counts
    holder_a,         \* the holder whose value is mutated
    holder_b,         \* another holder, of a clone
    holder_s,         \* the holder of the Substs argument
    seen              \* the value holder_b had before the mutation

walkVars == <<value, substs, depth, out>>

ctorVars == <<other, eq>>

builderVars == <<vec, param_count, bstate, built, inserted, overflow_checks>>

sigVars == <<sig, is_varargs, fn_ty>>

vars == <<value, substs, depth, hist, out, other, eq, vec, param_count, bstate,
          built, inserted, overflow_checks, sig, is_varargs, fn_ty, heap,
          holder_a, holder_b, holder_s, seen>>

shareVars == <<heap, holder_a, holder_b, holder_s, seen>>

(***************************************************************************)
(* Bounds of the model.                                                    *)
(***************************************************************************)
MaxDebruijn == 2
MaxIndex == 1
MaxNest == 2
MaxDepth == 2
MaxLen == 2

(***************************************************************************)
(* Constructors of the values.                                             *)
(***************************************************************************)
Mk(tag, id, args) == [tag |-> tag, id |-> id, args |-> args]

Unknown == Mk("Unknown", <<>>, <<>>)
Str == Mk("Str", <<>>, <<>>)
Never == Mk("Never", <<>>, <<>>)
Scalar(s) == Mk("Scalar", <<s>>, <<>>)
Placeholder(p) == Mk("Placeholder", <<p>>, <<>>)
InferenceVar(v, k) == Mk("InferenceVar", <<v, k>>, <<>>)
ForeignType(a) == Mk("ForeignType", <<a>>, <<>>)
Bound(debruijn, index) == Mk("Bound", <<debruijn, index>>, <<>>)
Adt(a, s) == Mk("Adt", <<a>>, s)
AssociatedType(a, s) == Mk("AssociatedType", <<a>>, s)
Tuple(n, s) == Mk("Tuple", <<n>>, s)
Array(s) == Mk("Array", <<>>, s)
Slice(s) == Mk("Slice", <<>>, s)
RawPtr(m, s) == Mk("RawPtr", <<m>>, s)
Ref(m, s) == Mk("Ref", <<m>>, s)
OpaqueType(o, s) == Mk("OpaqueType", <<o>>, s)
FnDef(d, s) == Mk("FnDef", <<d>>, s)
Closure(d, e, s) == Mk("Closure", <<d, e>>, s)
Function(num_args, variadic, s) == Mk("Function", <<num_args, variadic>>, s)
Projection(a, s) == Mk("Projection", <<a>>, s)
Opaque(o, s) == Mk("Opaque", <<o>>, s)
Dyn(predicates) == Mk("Dyn", <<>>, predicates)

\* GenericPredicate::Implemented(TraitRef { trait_, substs }) and ::Error
Implemented(t, s) == Mk("Implemented", <<t>>, s)
PredError == Mk("Error", <<>>, <<>>)

\* struct Substs(Arc<[Ty]>) and struct Binders<T> as walkable values
SubstsOf(s) == Mk("Substs", <<>>, s)
Binders(num_binders, v) == Mk("Binders", <<num_binders>>, <<v>>)

\* The variants for which Ty::substs() / substs_mut() return Some
SubstsTags ==
    {"Adt", "Slice", "Array", "RawPtr", "Ref", "FnDef", "Function", "Tuple",
     "OpaqueType", "AssociatedType", "Closure"}

\* The values that are not a Ty: f is never called on them
NonTyTags == {"Implemented", "Error", "Substs", "Binders", "CallableSig"}

IsTy(v) == v.tag \notin NonTyTags

\* DebruijnIndex::INNERMOST and DebruijnIndex::shifted_in
INNERMOST == 0

ShiftedIn(binders) == binders + 1

(***************************************************************************)
(* Results of a computation.                                               *)
(***************************************************************************)
Ok(v, log) == [status |-> "ok", val |-> v, log |-> log]

Panic(kind, log) == [status |-> kind, val |-> Unknown, log |-> log]

(***************************************************************************)
(* The closures handed to walk_mut_binders, as records: kind says which    *)
(* closure of the source it is, substs and n are what it captured.         *)
(***************************************************************************)
ObserveFn == [kind |-> "observe", substs |-> <<>>, n |-> 0]

SubstFn(s) == [kind |-> "subst", substs |-> s, n |-> 0]

ShiftFn(n) == [kind |-> "shift", substs |-> <<>>, n |-> n]

RECURSIVE WalkMutBinders(_, _, _, _)
RECURSIVE WalkSlice(_, _, _, _, _)
RECURSIVE CallFn(_, _, _)

\* fold_binders: walk_mut_binders with a closure that takes the node out
\* (leaving Ty::Unknown behind for the time of the call) and puts f's result
\* in its place
FoldBinders(self, f, binders) == WalkMutBinders(self, f, binders, <<>>)

\* BoundVar::shifted_in_from as shift_bound_vars uses it
ShiftedInFrom(bound, n) == Bound(bound.id[1] + n, bound.id[2])

\* Faulty variant, for comparison: a variable of the walk's own depth is not shifted
ShiftClosure_Strict(ty, n, binders) ==
    IF ty.tag = "Bound" /\ ty.id[1] > binders
    THEN Ok(ShiftedInFrom(ty, n), <<>>)
    ELSE Ok(ty, <<>>)

\* The closure of shift_bound_vars
ShiftClosure(ty, n, binders) ==
    IF ty.tag = "Bound" /\ ty.id[1] >= binders
    THEN Ok(ShiftedInFrom(ty, n), <<>>)
    ELSE Ok(ty, <<>>)

\* shift_bound_vars
ShiftBoundVars(self, n) == FoldBinders(self, ShiftFn(n), INNERMOST)

\* Faulty variant, for comparison: the replacement is inserted as it is, not shifted
Replacement_NoShift(s, index, binders) ==
    IF index + 1 > Len(s)
    THEN Panic("index_out_of_bounds", <<>>)
    ELSE Ok(s[index + 1], <<>>)

\* Faulty variant, for comparison: a variable taken from substs is looked up in substs again
Replacement_Resubstituted(s, index, binders) ==
    IF index + 1 > Len(s)
    THEN Panic("index_out_of_bounds", <<>>)
    ELSE LET e == s[index + 1]
         IN  IF e.tag = "Bound" /\ e.id[2] + 1 <= Len(s)
             THEN ShiftBoundVars(s[e.id[2] + 1], binders)
             ELSE ShiftBoundVars(e, binders)

\* substs.0[bound.index].clone().shift_bound_vars(binders)
Replacement(s, index, binders) ==
    IF index + 1 > Len(s)
    THEN Panic("index_out_of_bounds", <<>>)
    ELSE ShiftBoundVars(s[index + 1], binders)

\* Faulty variant, for comparison: a variable of the walk's own depth counts as bound
SubstClosure_Strict(ty, s, binders) ==
    IF ty.tag = "Bound" /\ ty.id[1] > binders
    THEN Replacement(s, ty.id[2], binders)
    ELSE Ok(ty, <<>>)

\* The closure of subst_bound_vars_at_depth
SubstClosure(ty, s, binders) ==
    IF ty.tag = "Bound" /\ ty.id[1] >= binders
    THEN Replacement(s, ty.id[2], binders)
    ELSE Ok(ty, <<>>)

\* f(ty, binders): the node after the call, or the panic of the call
CallFn(f, ty, binders) ==
    CASE f.kind = "observe" -> Ok(ty, <<>>)
      [] f.kind = "subst" -> SubstClosure(ty, f.substs, binders)
      [] f.kind = "shift" -> ShiftClosure(ty, f.n, binders)

\* for t in items[i..] { t.walk_mut_binders(f, binders) }
WalkSlice(items, f, binders, path, i) ==
    IF i > Len(items)
    THEN Ok(<<>>, <<>>)
    ELSE LET h == WalkMutBinders(items[i], f, binders, Append(path, i))
         IN  IF h.status # "ok"
             THEN h
             ELSE LET r == WalkSlice(items, f, binders, path, i + 1)
                  IN  IF r.status # "ok"
                      THEN Panic(r.status, h.log \o r.log)
                      ELSE Ok(<<h.val>> \o r.val, h.log \o r.log)

\* The list self owns walked at depth binders, and self around the result
WalkInto(self, f, binders, path) ==
    LET c == WalkSlice(self.args, f, binders, path, 1)
    IN  IF c.status # "ok" THEN c ELSE Ok([self EXCEPT !.args = c.val], c.log)

\* The depth at which each arm of <Ty as TypeWalk>::walk_mut_binders
\* recurses
ProjectionBinders(binders) == binders

\* Faulty variant, for comparison: the Dyn arm forgets its Self binder
DynBinders_NoShift(binders) == binders

DynBinders(binders) == ShiftedIn(binders)

\* Faulty variant, for comparison: the Opaque arm counts a binder around the parameters
OpaqueBinders_Shifted(binders) == ShiftedIn(binders)

OpaqueBinders(binders) == binders

SubstsBinders(binders) == binders

\* <Ty as TypeWalk>::walk_mut_binders: the contents, then f on the node
TyWalkMutBinders(self, f, binders, path) ==
    LET c == CASE self.tag = "Projection" ->
                    WalkInto(self, f, ProjectionBinders(binders), path)
               [] self.tag = "Dyn" ->
                    WalkInto(self, f, DynBinders(binders), path)
               [] self.tag = "Opaque" ->
                    WalkInto(self, f, OpaqueBinders(binders), path)
               [] OTHER ->
                    IF self.tag \in SubstsTags
                    THEN WalkInto(self, f, SubstsBinders(binders), path)
                    ELSE Ok(self, <<>>)
    IN  IF c.status # "ok"
        THEN c
        ELSE LET r == CallFn(f, c.val, binders)
                 log == Append(c.log, <<path, binders>>)
             IN  IF r.status # "ok" THEN Panic(r.status, log) ELSE Ok(r.val, log)

\* walk_mut_binders of every implementor; path is where self sits in the
\* walked value, log the calls of f in order, each as <<path, binders>>
WalkMutBinders(self, f, binders, path) ==
    CASE self.tag = "Substs" -> WalkInto(self, f, binders, path)
      [] self.tag = "Binders" -> WalkInto(self, f, ShiftedIn(binders), path)
      [] self.tag = "Implemented" -> WalkInto(self, f, binders, path)
      [] self.tag = "CallableSig" -> WalkInto(self, f, binders, path)
      [] self.tag = "Error" -> Ok(self, <<>>)
      [] OTHER -> TyWalkMutBinders(self, f, binders, path)

\* subst_bound_vars_at_depth and subst_bound_vars
SubstBoundVarsAtDepth(self, s, d) == WalkMutBinders(self, SubstFn(s), d, <<>>)

SubstBoundVars(self, s) == SubstBoundVarsAtDepth(self, s, INNERMOST)

(***************************************************************************)
(* Places in a value: a path is the list of positions leading from the     *)
(* value to a node through the lists the nodes own.                        *)
(***************************************************************************)
RECURSIVE Paths(_)
Paths(v) ==
    {<<>>} \cup
    UNION {{<<i>> \o q : q \in Paths(v.args[i])} : i \in 1..Len(v.args)}

RECURSIVE NodeAt(_, _)
NodeAt(v, p) == IF p = <<>> THEN v ELSE NodeAt(v.args[Head(p)], Tail(p))

TyPaths(v) == {p \in Paths(v) : IsTy(NodeAt(v, p))}

\* How many of the nodes strictly above p carry a tag of tags
CountAbove(v, p, tags) ==
    Cardinality({k \in 0..(Len(p) - 1) : NodeAt(v, SubSeq(p, 1, k)).tag \in tags})

\* The binders entered on the way to p
BindersAbove(v, p) == CountAbove(v, p, {"Dyn", "Binders"})

(***************************************************************************)
(* The values the model starts from.                                       *)
(***************************************************************************)
BoundLeaves == {Bound(d, i) : d \in 0..MaxDebruijn, i \in 0..MaxIndex}

Leaves == BoundLeaves \cup {Unknown, Str}

Wrap(S) ==
    {Ref(0, <<t>>) : t \in S}
    \cup {Dyn(<<Implemented(1, <<t>>)>>) : t \in S}
    \cup {Opaque(1, <<t>>) : t \in S}
    \cup {OpaqueType(1, <<t>>) : t \in S}
    \cup {Projection(1, <<t>>) : t \in S}

Pairs ==
    {Tuple(2, <<a, b>>) : a \in Leaves, b \in {Bound(0, 0), Bound(1, 1)}}
    \cup {Dyn(<<PredError, Implemented(1, <<a, b>>)>>) :
            a \in {Bound(0, 0), Bound(1, 0)}, b \in {Bound(0, 1), Bound(1, 1), Str}}

RECURSIVE TysOfNest(_)
TysOfNest(n) == IF n = 0 THEN Leaves ELSE Leaves \cup Pairs \cup Wrap(TysOfNest(n - 1))

Tys == TysOfNest(MaxNest)

SubstElems == {Str, Bound(0, 0), Dyn(<<Implemented(1, <<Bound(0, 0), Bound(1, 1)>>)>>)}

SubstsOfLen(n) == [1..n -> SubstElems]

SubstsSet == UNION {SubstsOfLen(n) : n \in 0..MaxLen}

(***************************************************************************)
(* The traversal operations, each applied once to a fresh value           *)
(* (SpecWalk), and a shift by n followed by a substitution at depth n      *)
(* (SpecShift).                                                            *)
(***************************************************************************)
\* The variables of the parts of the program a specification leaves alone
IdleWalk ==
    /\ value = Unknown
    /\ substs = <<>>
    /\ depth = 0
    /\ out = Ok(Unknown, <<>>)

IdleCtor ==
    /\ other = Unknown
    /\ eq = FALSE

IdleBuilder ==
    /\ vec = <<>>
    /\ param_count = 0
    /\ bstate = "none"
    /\ built = <<>>
    /\ inserted = <<>>
    /\ overflow_checks = FALSE

IdleShare ==
    /\ heap = <<>>
    /\ holder_a = Unknown
    /\ holder_b = Unknown
    /\ holder_s = Unknown
    /\ seen = Unknown

IdleSig ==
    /\ sig = Ok(Unknown, <<>>)
    /\ is_varargs = 0
    /\ fn_ty = Ok(Unknown, <<>>)

InitWalk ==
    /\ value \in Tys
    /\ substs = <<>>
    /\ depth = 0
    /\ hist = <<>>
    /\ out = Ok(value, <<>>)
    /\ IdleCtor
    /\ IdleBuilder
    /\ IdleSig
    /\ IdleShare

DoWalkMutBinders ==
    /\ hist = <<>>
    /\ \E d \in 0..MaxDepth :
        /\ depth' = d
        /\ out' = WalkMutBinders(value, ObserveFn, d, <<>>)
    /\ hist' = <<"walk_mut_binders">>
    /\ UNCHANGED <<value, substs, ctorVars, sigVars, builderVars, shareVars>>

DoShiftBoundVars ==
    /\ hist = <<>>
    /\ \E n \in 0..MaxDepth :
        /\ depth' = n
        /\ out' = ShiftBoundVars(value, n)
    /\ hist' = <<"shift_bound_vars">>
    /\ UNCHANGED <<value, substs, ctorVars, sigVars, builderVars, shareVars>>

DoSubstBoundVars ==
    /\ hist = <<>>
    /\ \E s \in SubstsSet :
        /\ substs' = s
        /\ out' = SubstBoundVars(value, s)
    /\ hist' = <<"subst_bound_vars">>
    /\ UNCHANGED <<value, depth, ctorVars, sigVars, builderVars, shareVars>>

DoSubstBoundVarsAtDepth ==
    /\ hist = <<>>
    /\ \E s \in SubstsSet, d \in 0..MaxDepth :
        /\ substs' = s
        /\ depth' = d
        /\ out' = SubstBoundVarsAtDepth(value, s, d)
    /\ hist' = <<"subst_bound_vars_at_depth">>
    /\ UNCHANGED <<value, ctorVars, sigVars, builderVars, shareVars>>

\* t.shift_bound_vars(n).subst_bound_vars_at_depth(s, n): the second call,
\* on what the first returned
DoSubstAfterShift ==
    /\ hist = <<"shift_bound_vars">>
    /\ \E s \in SubstsSet :
        /\ substs' = s
        /\ out' = SubstBoundVarsAtDepth(out.val, s, depth)
    /\ hist' = <<"shift_bound_vars", "subst_bound_vars_at_depth">>
    /\ UNCHANGED <<value, depth, ctorVars, sigVars, builderVars, shareVars>>

NextWalk ==
    \/ DoWalkMutBinders
    \/ DoSubstBoundVars
    \/ DoSubstBoundVarsAtDepth

SpecWalk == InitWalk /\ [][NextWalk]_vars

NextShift ==
    \/ DoShiftBoundVars
    \/ DoSubstAfterShift

SpecShift == InitWalk /\ [][NextShift]_vars

(***************************************************************************)
(* TypeWalk::walk, the traversal that does not mutate: the places at which *)
(* f is called, in the order of the calls.                                 *)
(***************************************************************************)
RECURSIVE Walk(_, _)
RECURSIVE WalkEach(_, _, _)

\* for t in items[i..].iter() { t.walk(f) }
WalkEach(items, path, i) ==
    IF i > Len(items)
    THEN <<>>
    ELSE Walk(items[i], Append(path, i)) \o WalkEach(items, path, i + 1)

\* Faulty variant, for comparison: f is called on the node before its contents are walked
TyWalkOrder_NodeFirst(contents, path) == <<path>> \o contents

\* <Ty as TypeWalk>::walk: the match on self, then f(self)
TyWalkOrder(contents, path) == contents \o <<path>>

TyWalk(self, path) ==
    TyWalkOrder(CASE self.tag \in {"Projection", "Dyn", "Opaque"} ->
                        WalkEach(self.args, path, 1)
                  [] OTHER ->
                        IF self.tag \in SubstsTags
                        THEN WalkEach(self.args, path, 1)
                        ELSE <<>>,
                path)

\* walk of every implementor
Walk(self, path) ==
    CASE self.tag \in {"Substs", "Binders", "Implemented", "CallableSig"} ->
            WalkEach(self.args, path, 1)
      [] self.tag = "Error" -> <<>>
      [] OTHER -> TyWalk(self, path)

DoWalk ==
    /\ hist = <<>>
    /\ out' = Ok(value, Walk(value, <<>>))
    /\ hist' = <<"walk">>
    /\ UNCHANGED <<value, substs, depth, ctorVars, builderVars, sigVars, shareVars>>

NextVisit == DoWalk

SpecVisit == InitWalk /\ [][NextVisit]_vars

(***************************************************************************)
(* Binders<T>: subst and subst_prefix, applied to a Binders around a Ty or *)
(* around the Substs that Substs::bound_vars builds.                       *)
(***************************************************************************)
\* Faulty variant, for comparison: the parameters are numbered from 1
BoundVarsSubsts_FromOne(n, debruijn) == [i \in 1..n |-> Bound(debruijn, i)]

\* Substs::bound_vars for a parameter list of length n
BoundVarsSubsts(n, debruijn) == [i \in 1..n |-> Bound(debruijn, i - 1)]

\* Faulty variant, for comparison: the arity is not asserted
BindersSubst_NoAssert(self, s) == SubstBoundVars(self.args[1], s)

\* Binders::subst
BindersSubst(self, s) ==
    IF Len(s) # self.id[1]
    THEN Panic("assertion_failed", <<>>)
    ELSE SubstBoundVars(self.args[1], s)

\* Binders::subst_prefix
BindersSubstPrefix(self, s) ==
    IF ~(Len(s) < self.id[1])
    THEN Panic("assertion_failed", <<>>)
    ELSE LET r == SubstBoundVars(self.args[1], s)
         IN  IF r.status # "ok"
             THEN r
             ELSE Ok(Binders(self.id[1] - Len(s), r.val), r.log)

BindersSet ==
    {Binders(k, SubstsOf(BoundVarsSubsts(k, d))) : k \in 0..MaxLen, d \in 0..MaxDebruijn}
    \cup {Binders(k, t) : k \in 0..MaxLen, t \in TysOfNest(1)}

InitBinders ==
    /\ value \in BindersSet
    /\ substs = <<>>
    /\ depth = 0
    /\ hist = <<>>
    /\ out = Ok(value, <<>>)
    /\ IdleCtor
    /\ IdleBuilder
    /\ IdleSig
    /\ IdleShare

DoBindersSubst ==
    /\ hist = <<>>
    /\ \E s \in SubstsSet :
        /\ substs' = s
        /\ out' = BindersSubst(value, s)
    /\ hist' = <<"Binders::subst">>
    /\ UNCHANGED <<value, depth, ctorVars, sigVars, builderVars, shareVars>>

DoBindersSubstPrefix ==
    /\ hist = <<>>
    /\ \E s \in SubstsSet :
        /\ substs' = s
        /\ out' = BindersSubstPrefix(value, s)
    /\ hist' = <<"Binders::subst_prefix">>
    /\ UNCHANGED <<value, depth, ctorVars, sigVars, builderVars, shareVars>>

NextBinders ==
    \/ DoBindersSubst
    \/ DoBindersSubstPrefix

SpecBinders == InitBinders /\ [][NextBinders]_vars

(***************************************************************************)
(* Ty::equals_ctor, applied to a pair of types.                            *)
(***************************************************************************)
MaxId == 2

\* The arm of (Ref, Ref) | (RawPtr, RawPtr)
MutabilityArm(self, o) == self.id[1] = o.id[1]

\* Faulty variant, for comparison: the arm of Str and Never is missing, the pair falls to _ => false
UnitArm_Missing(self, o) == FALSE

\* The arm of (Str, Str) | (Never, Never)
UnitArm(self, o) == TRUE

\* Faulty variant, for comparison: a tuple is taken for any tuple that is no shorter
TupleArm_AtLeast(self, o) == self.id[1] <= o.id[1]

\* The arm of (Tuple, Tuple)
TupleArm(self, o) == self.id[1] = o.id[1]

Both(self, o, tag) == self.tag = tag /\ o.tag = tag

\* Ty::equals_ctor
EqualsCtor(self, o) ==
    CASE Both(self, o, "Adt") -> self.id[1] = o.id[1]
      [] Both(self, o, "Slice") \/ Both(self, o, "Array") -> TRUE
      [] Both(self, o, "FnDef") -> self.id[1] = o.id[1]
      [] Both(self, o, "OpaqueType") -> self.id[1] = o.id[1]
      [] Both(self, o, "AssociatedType") \/ Both(self, o, "ForeignType") ->
            self.id[1] = o.id[1]
      [] Both(self, o, "Closure") -> self.id[2] = o.id[2] /\ self.id[1] = o.id[1]
      [] Both(self, o, "Ref") \/ Both(self, o, "RawPtr") -> MutabilityArm(self, o)
      [] Both(self, o, "Function") -> self.id[1] = o.id[1] /\ self.id[2] = o.id[2]
      [] Both(self, o, "Tuple") -> TupleArm(self, o)
      [] Both(self, o, "Str") \/ Both(self, o, "Never") -> UnitArm(self, o)
      [] Both(self, o, "Scalar") -> self.id[1] = o.id[1]
      [] OTHER -> FALSE

Ids == 1..MaxId

Flags == {0, 1}

CtorArgs == {<<Str>>, <<Unknown>>}

CtorTys ==
    {Unknown, Str, Never, Bound(0, 0)}
    \cup {Scalar(i) : i \in Ids}
    \cup {Placeholder(i) : i \in Ids}
    \cup {InferenceVar(i, 0) : i \in Ids}
    \cup {ForeignType(i) : i \in Ids}
    \cup {Adt(i, s) : i \in Ids, s \in CtorArgs}
    \cup {AssociatedType(i, s) : i \in Ids, s \in CtorArgs}
    \cup {Tuple(i, s) : i \in Ids, s \in CtorArgs}
    \cup {Array(s) : s \in CtorArgs}
    \cup {Slice(s) : s \in CtorArgs}
    \cup {RawPtr(m, s) : m \in Flags, s \in CtorArgs}
    \cup {Ref(m, s) : m \in Flags, s \in CtorArgs}
    \cup {OpaqueType(i, s) : i \in Ids, s \in CtorArgs}
    \cup {FnDef(i, s) : i \in Ids, s \in CtorArgs}
    \cup {Closure(i, j, <<Str>>) : i \in Ids, j \in Ids}
    \cup {Function(i, v, s) : i \in Ids, v \in Flags, s \in CtorArgs}
    \cup {Projection(i, s) : i \in Ids, s \in CtorArgs}
    \cup {Opaque(i, s) : i \in Ids, s \in CtorArgs}
    \cup {Dyn(<<>>), Dyn(<<PredError>>), Dyn(<<Implemented(1, <<Str>>)>>)}

InitCtor ==
    /\ value \in CtorTys
    /\ other \in CtorTys
    /\ eq = FALSE
    /\ substs = <<>>
    /\ depth = 0
    /\ hist = <<>>
    /\ out = Ok(Unknown, <<>>)
    /\ IdleBuilder
    /\ IdleSig
    /\ IdleShare

DoEqualsCtor ==
    /\ hist = <<>>
    /\ eq' = EqualsCtor(value, other)
    /\ hist' = <<"equals_ctor">>
    /\ UNCHANGED <<walkVars, other, builderVars, sigVars, shareVars>>

NextCtor == DoEqualsCtor

SpecCtor == InitCtor /\ [][NextCtor]_vars

(***************************************************************************)
(* SubstsBuilder.  Each method takes the builder by value: after a panic,  *)
(* or after build(), there is no builder left to call.  remaining() is     *)
(* param_count - vec.len() in usize: when vec is longer than param_count   *)
(* the subtraction panics in a build that checks overflow and wraps to     *)
(* 2^w - (vec.len() - param_count) in one that does not, which is more     *)
(* than any finite filler yields and is not 0.                             *)
(***************************************************************************)
MaxParams == 2
MaxVec == 3

BuilderElems == {Unknown, Str, Bound(0, 0)}

\* What a method leaves: the builder's vec and how the call ended
Built(v) == [status |-> "built", vec |-> v]

Building(v) == [status |-> "building", vec |-> v]

Panicked(v) == [status |-> "panicked", vec |-> v]

Diverged(v) == [status |-> "diverged", vec |-> v]

\* Faulty variant, for comparison: build() accepts a vec that is not longer than param_count
BuilderBuild_AtMost(v, pc) == IF Len(v) <= pc THEN Built(v) ELSE Panicked(v)

\* SubstsBuilder::build
BuilderBuild(v, pc) == IF Len(v) = pc THEN Built(v) ELSE Panicked(v)

\* SubstsBuilder::push
BuilderPush(v, ty) == Building(Append(v, ty))

\* SubstsBuilder::use_parent_substs
BuilderUseParentSubsts(v, pc, parent) ==
    IF v # <<>>
    THEN Panicked(v)
    ELSE IF ~(Len(parent) <= pc)
         THEN Panicked(v)
         ELSE Building(v \o parent)

\* The iterators handed to fill: a finite list, iter::repeat(Ty::Unknown),
\* and (starting_from..).map(|idx| Ty::Bound(BoundVar::new(debruijn, idx)))
ListFiller(items) == [kind |-> "list", items |-> items, debruijn |-> 0, from |-> 0]

UnknownFiller == [kind |-> "unknown", items |-> <<>>, debruijn |-> 0, from |-> 0]

BoundVarsFiller(debruijn, starting_from) ==
    [kind |-> "bound_vars", items |-> <<>>, debruijn |-> debruijn, from |-> starting_from]

Min(a, b) == IF a <= b THEN a ELSE b

\* filler.take(n), collected
FillerTake(filler, n) ==
    CASE filler.kind = "list" -> SubSeq(filler.items, 1, Min(n, Len(filler.items)))
      [] filler.kind = "unknown" -> [i \in 1..n |-> Unknown]
      [] filler.kind = "bound_vars" ->
            [i \in 1..n |-> Bound(filler.debruijn, filler.from + i - 1)]

\* SubstsBuilder::fill; checks says whether the build checks overflow
BuilderFill(v, pc, filler, checks) ==
    IF pc >= Len(v)
    THEN LET filled == v \o FillerTake(filler, pc - Len(v))
         IN  IF pc - Len(filled) = 0 THEN Building(filled) ELSE Panicked(filled)
    ELSE IF checks
         THEN Panicked(v)
         ELSE IF filler.kind = "list"
              THEN Panicked(v \o filler.items)
              ELSE Diverged(v)

ListFillers ==
    {ListFiller(items) : items \in UNION {[1..n -> {Unknown, Str}] : n \in 0..MaxParams}}

ParentSubsts == UNION {[1..n -> BuilderElems] : n \in 0..MaxParams}

\* Substs::builder(param_count)
InitBuilder ==
    /\ param_count \in 0..MaxParams
    /\ overflow_checks \in BOOLEAN
    /\ vec = <<>>
    /\ bstate = "building"
    /\ built = <<>>
    /\ inserted = <<>>
    /\ hist = <<>>
    /\ IdleWalk
    /\ IdleCtor
    /\ IdleSig
    /\ IdleShare

\* What a call that left r does to the builder
Becomes(r, taken) ==
    /\ vec' = r.vec
    /\ bstate' = r.status
    /\ built' = IF r.status = "built" THEN r.vec ELSE built
    /\ inserted' = IF r.status = "building" THEN inserted \o taken ELSE inserted

DoPush ==
    /\ bstate = "building"
    /\ Len(vec) < MaxVec
    /\ \E ty \in BuilderElems : Becomes(BuilderPush(vec, ty), <<ty>>)
    /\ hist' = <<"push">>
    /\ UNCHANGED <<walkVars, ctorVars, sigVars, param_count, overflow_checks, shareVars>>

DoUseParentSubsts ==
    /\ bstate = "building"
    /\ \E parent \in ParentSubsts :
        Becomes(BuilderUseParentSubsts(vec, param_count, parent), parent)
    /\ hist' = <<"use_parent_substs">>
    /\ UNCHANGED <<walkVars, ctorVars, sigVars, param_count, overflow_checks, shareVars>>

\* What the filler hands over before fill returns
Taken(filler) ==
    IF param_count >= Len(vec) THEN FillerTake(filler, param_count - Len(vec)) ELSE <<>>

DoFill ==
    /\ bstate = "building"
    /\ \E filler \in ListFillers :
        Becomes(BuilderFill(vec, param_count, filler, overflow_checks), Taken(filler))
    /\ hist' = <<"fill">>
    /\ UNCHANGED <<walkVars, ctorVars, sigVars, param_count, overflow_checks, shareVars>>

DoFillWithBoundVars ==
    /\ bstate = "building"
    /\ \E d \in 0..MaxIndex, from \in 0..MaxIndex :
        Becomes(BuilderFill(vec, param_count, BoundVarsFiller(d, from), overflow_checks),
               Taken(BoundVarsFiller(d, from)))
    /\ hist' = <<"fill_with_bound_vars">>
    /\ UNCHANGED <<walkVars, ctorVars, sigVars, param_count, overflow_checks, shareVars>>

DoFillWithUnknown ==
    /\ bstate = "building"
    /\ Becomes(BuilderFill(vec, param_count, UnknownFiller, overflow_checks),
              Taken(UnknownFiller))
    /\ hist' = <<"fill_with_unknown">>
    /\ UNCHANGED <<walkVars, ctorVars, sigVars, param_count, overflow_checks, shareVars>>

DoBuild ==
    /\ bstate = "building"
    /\ Becomes(BuilderBuild(vec, param_count), <<>>)
    /\ hist' = <<"build">>
    /\ UNCHANGED <<walkVars, ctorVars, sigVars, param_count, overflow_checks, shareVars>>

NextBuilder ==
    \/ DoPush
    \/ DoUseParentSubsts
    \/ DoFill
    \/ DoFillWithBoundVars
    \/ DoFillWithUnknown
    \/ DoBuild

SpecBuilder == InitBuilder /\ [][NextBuilder]_vars

\* The builder states that push and use_parent_substs reach, and
\* fill_with_unknown called in them
NextFill ==
    \/ DoPush
    \/ DoUseParentSubsts
    \/ DoFillWithUnknown

SpecFill == InitBuilder /\ [][NextFill]_vars

(***************************************************************************)
(* Ty::apply_substs, applied to a type of any variant.                     *)
(***************************************************************************)
\* Faulty variant, for comparison: a shorter list is accepted as well
SubstsLenAssert_AtMost(old, new) == Len(new) <= Len(old)

\* assert_eq!(substs.len(), new_substs.len())
SubstsLenAssert(old, new) == Len(old) = Len(new)

\* Ty::apply_substs: the arm of the variants that have a Substs, and _ => ()
ApplySubsts(self, new_substs) ==
    CASE self.tag \in {"Adt", "Slice", "Array", "RawPtr", "Ref", "FnDef",
                       "Function", "Tuple", "OpaqueType", "AssociatedType",
                       "Closure"} ->
            IF ~SubstsLenAssert(self.args, new_substs)
            THEN Panic("assertion_failed", <<>>)
            ELSE Ok([self EXCEPT !.args = new_substs], <<>>)
      [] OTHER -> Ok(self, <<>>)

ApplyTys ==
    CtorTys \cup Pairs
    \cup {Adt(1, <<Str, Unknown>>), Tuple(0, <<>>), Function(1, 0, <<Str, Never>>),
          Closure(1, 1, <<Function(0, 1, <<Str>>), Unknown>>)}

InitApply ==
    /\ value \in ApplyTys
    /\ substs = <<>>
    /\ depth = 0
    /\ hist = <<>>
    /\ out = Ok(value, <<>>)
    /\ IdleCtor
    /\ IdleBuilder
    /\ IdleSig
    /\ IdleShare

DoApplySubsts ==
    /\ hist = <<>>
    /\ \E s \in SubstsSet :
        /\ substs' = s
        /\ out' = ApplySubsts(value, s)
    /\ hist' = <<"apply_substs">>
    /\ UNCHANGED <<value, depth, ctorVars, sigVars, builderVars, shareVars>>

NextApply == DoApplySubsts

SpecApply == InitApply /\ [][NextApply]_vars

(***************************************************************************)
(* CallableSig: its constructors, params() and ret(), Ty::fn_ptr and       *)
(* Ty::callable_sig.  A CallableSig is a walkable value as well: its list  *)
(* is params_and_return, its payload is_varargs.                           *)
(***************************************************************************)
CallableSig(params_and_return, varargs) ==
    Mk("CallableSig", <<varargs>>, params_and_return)

\* A borrowed &[Ty], and Option::None
TySlice(s) == Mk("[Ty]", <<>>, s)

NoneVal == Mk("None", <<>>, <<>>)

\* Faulty variant, for comparison: the return type is put in front of the parameters
FromParamsAndReturn_RetFirst(params, ret, varargs) ==
    CallableSig(<<ret>> \o params, varargs)

\* CallableSig::from_params_and_return
FromParamsAndReturn(params, ret, varargs) ==
    CallableSig(Append(params, ret), varargs)

\* CallableSig::from_fn_ptr
FromFnPtr(fn_ptr) == CallableSig(fn_ptr.args, fn_ptr.id[2])

\* CallableSig::from_substs
FromSubsts(s) == CallableSig(s, 0)

\* self.params_and_return.len() - 1 in usize, used as a slice bound: on an
\* empty list the subtraction panics where overflow is checked and wraps
\* to usize::MAX where it is not, which is out of the slice's range
LastIndexPanic(checks) ==
    Panic(IF checks THEN "subtract_overflow" ELSE "index_out_of_bounds", <<>>)

\* CallableSig::params
SigParams(self, checks) ==
    IF Len(self.args) = 0
    THEN LastIndexPanic(checks)
    ELSE Ok(TySlice(SubSeq(self.args, 1, Len(self.args) - 1)), <<>>)

\* CallableSig::ret
SigRet(self, checks) ==
    IF Len(self.args) = 0
    THEN LastIndexPanic(checks)
    ELSE Ok(self.args[Len(self.args)], <<>>)

\* Ty::fn_ptr
FnPtr(s, checks) ==
    LET p == SigParams(s, checks)
    IN  IF p.status # "ok"
        THEN p
        ELSE Ok(Function(Len(p.val.args), s.id[1], s.args), <<>>)

\* Ty::callable_sig, but for the FnDef arm, which asks the database and is
\* given no type here
RECURSIVE CallableSigOf(_)
CallableSigOf(self) ==
    CASE self.tag = "Function" -> Ok(FromFnPtr(self), <<>>)
      [] self.tag = "Closure" ->
            IF Len(self.args) = 0
            THEN Panic("index_out_of_bounds", <<>>)
            ELSE CallableSigOf(self.args[1])
      [] self.tag \notin {"Function", "Closure", "FnDef"} -> Ok(NoneVal, <<>>)

SigElems == {Str, Scalar(1), Scalar(2)}

SigLists == UNION {[1..n -> SigElems] : n \in 0..MaxLen}

\* FnPointer has public fields: any num_args goes with any substs
FnPointers ==
    {Function(n, v, s) : n \in 0..MaxLen, v \in Flags, s \in SigLists}

\* The types callable_sig is asked about besides the results of fn_ptr
CallableTys ==
    {Str, Closure(1, 1, <<>>), Closure(1, 1, <<Str>>),
     Closure(1, 1, <<Function(1, 1, <<Str, Never>>)>>)}

Constructors == {"from_params_and_return", "from_fn_ptr", "from_substs"}

Last(h) == h[Len(h)]

InitSig ==
    /\ IdleWalk
    /\ IdleCtor
    /\ vec = <<>>
    /\ param_count = 0
    /\ bstate = "none"
    /\ built = <<>>
    /\ inserted = <<>>
    /\ overflow_checks \in BOOLEAN
    /\ IdleSig
    /\ IdleShare
    /\ hist = <<>>

DoFromParamsAndReturn ==
    /\ hist = <<>>
    /\ \E params \in SigLists, ret \in SigElems, varargs \in Flags :
        /\ substs' = params
        /\ value' = ret
        /\ is_varargs' = varargs
        /\ sig' = Ok(FromParamsAndReturn(params, ret, varargs), <<>>)
    /\ hist' = <<"from_params_and_return">>
    /\ UNCHANGED <<depth, out, ctorVars, builderVars, fn_ty, shareVars>>

DoFromFnPtr ==
    /\ hist = <<>>
    /\ \E fn_ptr \in FnPointers :
        /\ value' = fn_ptr
        /\ sig' = Ok(FromFnPtr(fn_ptr), <<>>)
    /\ hist' = <<"from_fn_ptr">>
    /\ UNCHANGED <<substs, depth, out, ctorVars, builderVars, is_varargs, fn_ty, shareVars>>

DoFromSubsts ==
    /\ hist = <<>>
    /\ \E s \in SigLists :
        /\ substs' = s
        /\ sig' = Ok(FromSubsts(s), <<>>)
    /\ hist' = <<"from_substs">>
    /\ UNCHANGED <<value, depth, out, ctorVars, builderVars, is_varargs, fn_ty, shareVars>>

\* Ty::fn_ptr(sig), on the CallableSig a constructor returned
DoFnPtr ==
    /\ Len(hist) = 1
    /\ hist[1] \in Constructors
    /\ fn_ty' = FnPtr(sig.val, overflow_checks)
    /\ hist' = Append(hist, "fn_ptr")
    /\ UNCHANGED <<walkVars, ctorVars, builderVars, sig, is_varargs, shareVars>>

\* callable_sig() of the type fn_ptr returned, or of another type
DoCallableSig ==
    /\ \/ /\ hist # <<>>
          /\ Last(hist) = "fn_ptr"
          /\ fn_ty.status = "ok"
          /\ sig' = CallableSigOf(fn_ty.val)
          /\ UNCHANGED fn_ty
       \/ /\ hist = <<>>
          /\ \E ty \in CallableTys :
                /\ fn_ty' = Ok(ty, <<>>)
                /\ sig' = CallableSigOf(ty)
    /\ hist' = Append(hist, "callable_sig")
    /\ UNCHANGED <<walkVars, ctorVars, builderVars, is_varargs, shareVars>>

\* The signature there is to ask
HasSig ==
    /\ hist # <<>>
    /\ Last(hist) \in Constructors \cup {"callable_sig"}
    /\ sig.status = "ok"
    /\ sig.val.tag = "CallableSig"

DoParams ==
    /\ HasSig
    /\ out' = SigParams(sig.val, overflow_checks)
    /\ hist' = Append(hist, "params")
    /\ UNCHANGED <<value, substs, depth, ctorVars, builderVars, sigVars, shareVars>>

DoRet ==
    /\ HasSig
    /\ out' = SigRet(sig.val, overflow_checks)
    /\ hist' = Append(hist, "ret")
    /\ UNCHANGED <<value, substs, depth, ctorVars, builderVars, sigVars, shareVars>>

NextSig ==
    \/ DoFromParamsAndReturn
    \/ DoFromFnPtr
    \/ DoFromSubsts
    \/ DoFnPtr
    \/ DoCallableSig
    \/ DoParams
    \/ DoRet

SpecSig == InitSig /\ [][NextSig]_vars

(***************************************************************************)
(* Shared storage.  The list of a Substs, of a Dyn and of a CallableSig    *)
(* is an Arc<[..]>: a cell of the heap with its items and its strong       *)
(* count, and a node holds the address of its cell (0: a variant without   *)
(* a list).  A clone of a node is the node again with the count of its     *)
(* cell raised; two holders whose nodes name one cell share its storage.   *)
(* The mutating traversal goes through make_mut_slice at every list.       *)
(***************************************************************************)
MaxCells == 14

Cells == 1..MaxCells

HNode(tag, id, ptr) == [tag |-> tag, id |-> id, ptr |-> ptr]

NoCell == [items |-> <<>>, rc |-> 0]

EmptyHeap == [a \in Cells |-> NoCell]

\* The variants and structs that own an Arc<[..]>
ListTags ==
    SubstsTags \cup {"Projection", "Opaque", "Dyn", "Implemented", "Substs", "CallableSig"}

\* The allocator: an address not in use
Fresh(h) == CHOOSE a \in Cells : h[a].rc = 0 /\ \A b \in Cells : h[b].rc = 0 => a <= b

RECURSIVE Alloc(_, _)
RECURSIVE AllocItems(_, _, _)
\* The value v built on the heap, nothing of it shared
AllocItems(h, items, i) ==
    IF i > Len(items)
    THEN [heap |-> h, nodes |-> <<>>]
    ELSE LET x == Alloc(h, items[i])
             r == AllocItems(x.heap, items, i + 1)
         IN  [heap |-> r.heap, nodes |-> <<x.node>> \o r.nodes]

Alloc(h, v) ==
    IF v.tag \notin ListTags
    THEN [heap |-> h, node |-> HNode(v.tag, v.id, 0)]
    ELSE LET c == AllocItems(h, v.args, 1)
             a == Fresh(c.heap)
         IN  [heap |-> [c.heap EXCEPT ![a] = [items |-> c.nodes, rc |-> 1]],
              node |-> HNode(v.tag, v.id, a)]

\* The value a holder of node sees
RECURSIVE Deref(_, _)
Deref(h, node) ==
    IF node.ptr = 0
    THEN Mk(node.tag, node.id, <<>>)
    ELSE Mk(node.tag, node.id,
            [i \in 1..Len(h[node.ptr].items) |-> Deref(h, h[node.ptr].items[i])])

\* Arc::clone
IncRc(h, a) == IF a = 0 THEN h ELSE [h EXCEPT ![a].rc = @ + 1]

\* #[derive(Clone)] of a node: its Arc cloned
CloneNode(h, node) == [heap |-> IncRc(h, node.ptr), node |-> node]

\* a.iter().cloned(): every item cloned
CloneItems(h, items) ==
    [a \in Cells |->
        [h[a] EXCEPT !.rc = @ + Cardinality({i \in 1..Len(items) : items[i].ptr = a})]]

\* Drop of an Arc, and of the items when it was the last one
RECURSIVE DropPtr(_, _)
RECURSIVE DropItems(_, _, _)
DropItems(h, items, i) ==
    IF i > Len(items) THEN h ELSE DropItems(DropPtr(h, items[i].ptr), items, i + 1)

DropPtr(h, a) ==
    IF a = 0
    THEN h
    ELSE IF h[a].rc > 1
         THEN [h EXCEPT ![a].rc = @ - 1]
         ELSE DropItems([h EXCEPT ![a] = NoCell], h[a].items, 1)

\* utils::make_mut_slice: the cell itself when the Arc is unique, else a new
\* cell with the items cloned, put in the place of the Arc
MakeMutSlice(h, a) ==
    IF h[a].rc = 1
    THEN [heap |-> h, ptr |-> a]
    ELSE LET n == Fresh(h)
             c == CloneItems(h, h[a].items)
         IN  [heap |-> [c EXCEPT ![a].rc = @ - 1,
                                 ![n] = [items |-> h[a].items, rc |-> 1]],
              ptr |-> n]

\* Faulty variant, for comparison: the items of the Arc are edited where they are
SubstsSlice_InPlace(h, a) == [heap |-> h, ptr |-> a]

\* make_mut_slice(&mut self.0), make_mut_slice(predicates) and
\* make_mut_slice(&mut self.params_and_return)
SubstsSlice(h, a) == MakeMutSlice(h, a)

DynSlice(h, a) == MakeMutSlice(h, a)

SigSlice(h, a) == MakeMutSlice(h, a)

\* The closures, on the heap: ptr is the cell of the captured Substs
EraseFn == [kind |-> "erase", n |-> 0, ptr |-> 0]

HShiftFn(n) == [kind |-> "shift", n |-> n, ptr |-> 0]

HSubstFn(ptr) == [kind |-> "subst", n |-> 0, ptr |-> ptr]

RECURSIVE HeapWalk(_, _, _, _)
RECURSIVE HeapWalkItems(_, _, _, _, _)
RECURSIVE HeapCallFn(_, _, _, _)

\* f(self, binders) on the heap: the heap and the node after the call
HeapCallFn(h, f, node, binders) ==
    CASE f.kind = "erase" ->
            [heap |-> h,
             node |-> IF node.tag = "Bound" THEN HNode("Unknown", <<>>, 0) ELSE node]
      [] f.kind = "shift" ->
            [heap |-> h,
             node |-> IF node.tag = "Bound" /\ node.id[1] >= binders
                      THEN HNode("Bound", <<node.id[1] + f.n, node.id[2]>>, 0)
                      ELSE node]
      [] f.kind = "subst" ->
            IF node.tag = "Bound" /\ node.id[1] >= binders
            THEN LET c == CloneNode(h, h[f.ptr].items[node.id[2] + 1])
                 IN  HeapWalk(c.heap, c.node, HShiftFn(binders), INNERMOST)
            ELSE [heap |-> h, node |-> node]

\* for t in make_mut_slice(..)[i..] { t.walk_mut_binders(f, binders) }: the
\* items of cell a are walked where they are
HeapWalkItems(h, a, f, binders, i) ==
    IF i > Len(h[a].items)
    THEN h
    ELSE LET r == HeapWalk(h, h[a].items[i], f, binders)
         IN  HeapWalkItems([r.heap EXCEPT ![a].items[i] = r.node], a, f, binders, i + 1)

\* walk_mut_binders on the heap
HeapWalk(h, node, f, binders) ==
    IF node.ptr = 0
    THEN IF IsTy(node) THEN HeapCallFn(h, f, node, binders) ELSE [heap |-> h, node |-> node]
    ELSE LET m == CASE node.tag = "Dyn" -> DynSlice(h, node.ptr)
                    [] node.tag = "CallableSig" -> SigSlice(h, node.ptr)
                    [] OTHER -> SubstsSlice(h, node.ptr)
             inner == CASE node.tag = "Projection" -> ProjectionBinders(binders)
                        [] node.tag = "Dyn" -> DynBinders(binders)
                        [] node.tag = "Opaque" -> OpaqueBinders(binders)
                        [] OTHER -> SubstsBinders(binders)
             w == HeapWalkItems(m.heap, m.ptr, f, inner, 1)
             self == [node EXCEPT !.ptr = m.ptr]
         IN  IF IsTy(node)
             THEN HeapCallFn(w, f, self, binders)
             ELSE [heap |-> w, node |-> self]

\* Ty::apply_substs on the heap; a failed assertion unwinds and drops both
\* self and new_substs
HeapApplySubsts(h, self, new_substs) ==
    IF self.tag \in SubstsTags
    THEN IF ~SubstsLenAssert(h[self.ptr].items, h[new_substs.ptr].items)
         THEN [heap |-> DropPtr(DropPtr(h, new_substs.ptr), self.ptr),
               node |-> HNode("Unknown", <<>>, 0), status |-> "assertion_failed"]
         ELSE [heap |-> DropPtr(h, self.ptr),
               node |-> [self EXCEPT !.ptr = new_substs.ptr], status |-> "ok"]
    ELSE [heap |-> DropPtr(h, new_substs.ptr), node |-> self, status |-> "ok"]

ShareTys ==
    {Ref(0, <<Bound(0, 0)>>),
     Adt(1, <<Str, Bound(0, 0)>>),
     Tuple(2, <<Bound(0, 1), Ref(0, <<Bound(0, 0)>>)>>),
     Tuple(2, <<Ref(0, <<Bound(0, 0)>>), Ref(0, <<Bound(0, 1)>>)>>),
     Dyn(<<Implemented(1, <<Bound(0, 0), Bound(1, 1)>>)>>),
     Ref(0, <<Dyn(<<PredError, Implemented(1, <<Bound(1, 0)>>)>>)>>),
     Function(1, 0, <<Bound(0, 0), Str>>),
     Function(1, 1, <<Ref(0, <<Bound(0, 1)>>), Bound(0, 0)>>),
     Opaque(1, <<Bound(0, 0)>>),
     Projection(1, <<Ref(0, <<Bound(0, 0)>>)>>)}

ShareSubsts == [1..MaxLen -> {Str, Bound(0, 0), Ref(0, <<Bound(0, 0)>>)}]

\* How holder_b came to share with holder_a: as a clone of the whole value,
\* as a clone of its first element, or as the Function whose list
\* CallableSig::from_fn_ptr took over
ShareModes == {"clone", "element", "from_fn_ptr"}

InitShare ==
    /\ \E v \in ShareTys, s \in ShareSubsts, mode \in ShareModes :
        LET x == Alloc(EmptyHeap, v)
            y == Alloc(x.heap, SubstsOf(s))
            first == y.heap[x.node.ptr].items[1]
        IN  /\ value = v
            /\ substs = s
            /\ holder_s = y.node
            /\ CASE mode = "clone" ->
                    /\ holder_a = x.node
                    /\ holder_b = x.node
                    /\ heap = IncRc(y.heap, x.node.ptr)
                 [] mode = "element" ->
                    /\ first.ptr # 0
                    /\ holder_a = x.node
                    /\ holder_b = first
                    /\ heap = IncRc(y.heap, first.ptr)
                 [] mode = "from_fn_ptr" ->
                    /\ v.tag = "Function"
                    /\ holder_a = HNode("CallableSig", <<v.id[2]>>, x.node.ptr)
                    /\ holder_b = x.node
                    /\ heap = IncRc(y.heap, x.node.ptr)
    /\ seen = Deref(heap, holder_b)
    /\ depth = 0
    /\ hist = <<>>
    /\ out = Ok(Unknown, <<>>)
    /\ IdleCtor
    /\ IdleBuilder
    /\ IdleSig

\* A call that left the heap and the node of r
Mutated(r) ==
    /\ heap' = r.heap
    /\ holder_a' = r.node

\* walk_mut / fold with a closure that turns every Bound into Unknown
DoShareWalkMut ==
    /\ hist = <<>>
    /\ Mutated(HeapWalk(heap, holder_a, EraseFn, INNERMOST))
    /\ hist' = <<"walk_mut">>
    /\ UNCHANGED <<walkVars, ctorVars, builderVars, sigVars, holder_b, holder_s, seen>>

DoShareWalkMutBinders ==
    /\ hist = <<>>
    /\ \E d \in 0..MaxDepth :
        /\ depth' = d
        /\ Mutated(HeapWalk(heap, holder_a, HShiftFn(1), d))
    /\ hist' = <<"walk_mut_binders">>
    /\ UNCHANGED <<value, substs, out, ctorVars, builderVars, sigVars, holder_b,
                   holder_s, seen>>

DoShareShiftBoundVars ==
    /\ hist = <<>>
    /\ \E n \in 0..MaxDepth :
        /\ depth' = n
        /\ Mutated(HeapWalk(heap, holder_a, HShiftFn(n), INNERMOST))
    /\ hist' = <<"shift_bound_vars">>
    /\ UNCHANGED <<value, substs, out, ctorVars, builderVars, sigVars, holder_b,
                   holder_s, seen>>

DoShareSubstBoundVars ==
    /\ hist = <<>>
    /\ Mutated(HeapWalk(heap, holder_a, HSubstFn(holder_s.ptr), INNERMOST))
    /\ hist' = <<"subst_bound_vars">>
    /\ UNCHANGED <<walkVars, ctorVars, builderVars, sigVars, holder_b, holder_s, seen>>

\* self.apply_substs(substs.clone())
DoShareApplySubsts ==
    /\ hist = <<>>
    /\ holder_a.tag # "CallableSig"
    /\ LET c == CloneNode(heap, holder_s)
           r == HeapApplySubsts(c.heap, holder_a, c.node)
       IN  /\ Mutated(r)
           /\ out' = IF r.status = "ok" THEN Ok(Unknown, <<>>) ELSE Panic(r.status, <<>>)
    /\ hist' = <<"apply_substs">>
    /\ UNCHANGED <<value, substs, depth, ctorVars, builderVars, sigVars, holder_b,
                   holder_s, seen>>

NextShare ==
    \/ DoShareWalkMut
    \/ DoShareWalkMutBinders
    \/ DoShareShiftBoundVars
    \/ DoShareSubstBoundVars
    \/ DoShareApplySubsts

SpecShare == InitShare /\ [][NextShare]_vars

(***************************************************************************)
(* Vocabulary of the statements about substitution.                        *)
(***************************************************************************)
\* The Bound node at p is free at the depth the walk has there
FreeAt(v, p, start) ==
    /\ NodeAt(v, p).tag = "Bound"
    /\ NodeAt(v, p).id[1] >= start + BindersAbove(v, p)

\* Every variable that s has to replace has its index inside s
Covers(s, v, start) ==
    \A p \in TyPaths(v) : FreeAt(v, p, start) => NodeAt(v, p).id[2] < Len(s)

\* No element of s has a free Bound variable
Closed(s) ==
    \A i \in 1..Len(s) : \A p \in TyPaths(s[i]) : ~FreeAt(s[i], p, 0)

\* C1: subst_bound_vars_at_depth(substs, start_depth) replaces each Bound
\* node that is free at its tracked depth d (start_depth plus the binders
\* entered above it) by substs[index] shifted up by d, leaves each Bound node
\* with debruijn < d as it was and keeps the constructor of every other
\* node; it panics exactly when a free variable's index is outside substs.
C1_SubstAtDepth ==
    hist = <<"subst_bound_vars_at_depth">> =>
        /\ out.status = IF Covers(substs, value, depth)
                        THEN "ok" ELSE "index_out_of_bounds"
        /\ out.status = "ok" =>
            \A p \in TyPaths(value) :
                LET node == NodeAt(value, p)
                    d == depth + BindersAbove(value, p)
                    after == NodeAt(out.val, p)
                IN  IF node.tag = "Bound"
                    THEN IF node.id[1] >= d
                         THEN after = ShiftBoundVars(substs[node.id[2] + 1], d).val
                         ELSE after = node
                    ELSE /\ after.tag = node.tag
                         /\ after.id = node.id
                         /\ Len(after.args) = Len(node.args)

\* C1 witness: a substitution at depth 1 under which one variable is left
\* alone and another is replaced by an element whose shift by the depth
\* changed it.
C1_Witness ==
    /\ hist = <<"subst_bound_vars_at_depth">>
    /\ out.status = "ok"
    /\ depth = 1
    /\ \E p, q \in TyPaths(value) :
        /\ NodeAt(value, p).tag = "Bound"
        /\ ~FreeAt(value, p, depth)
        /\ FreeAt(value, q, depth)
        /\ NodeAt(out.val, q) # substs[NodeAt(value, q).id[2] + 1]
        /\ NodeAt(out.val, q) # NodeAt(value, q)

\* A Dyn of the value that no binder encloses, and the variables right in
\* it: under its Self binder and under no other
DynPlaces(v) == {p \in TyPaths(v) : NodeAt(v, p).tag = "Dyn" /\ BindersAbove(v, p) = 0}

InsideDyn(v, p) ==
    {q \in TyPaths(v) :
        /\ Len(q) > Len(p)
        /\ SubSeq(q, 1, Len(p)) = p
        /\ BindersAbove(v, q) = 1
        /\ NodeAt(v, q).tag = "Bound"}

\* C2 (as amended): under subst_bound_vars of the enclosing value, a
\* Bound(0, k) inside a Dyn stays as it is, and a Bound(1, k) right inside a
\* Dyn that no other binder encloses becomes substs[k] with its free
\* variables shifted up by one.
C2_DynCapture ==
    (hist = <<"subst_bound_vars">> /\ out.status = "ok") =>
        \A p \in DynPlaces(value) : \A q \in InsideDyn(value, p) :
            LET node == NodeAt(value, q)
            IN  /\ node.id[1] = 0 => NodeAt(out.val, q) = node
                /\ node.id[1] = 1 =>
                     NodeAt(out.val, q) = ShiftBoundVars(substs[node.id[2] + 1], 1).val

\* C2 as stated: the Bound(1, k) inside the Dyn becomes substs[k] itself.
C2_AsStated ==
    (hist = <<"subst_bound_vars">> /\ out.status = "ok") =>
        \A p \in DynPlaces(value) : \A q \in InsideDyn(value, p) :
            LET node == NodeAt(value, q)
            IN  /\ node.id[1] = 0 => NodeAt(out.val, q) = node
                /\ node.id[1] = 1 => NodeAt(out.val, q) = substs[node.id[2] + 1]

\* C2 witness: a Dyn holding both a Bound(0, k) and a Bound(1, k), substituted
\* from outside.
C2_Witness ==
    /\ hist = <<"subst_bound_vars">>
    /\ out.status = "ok"
    /\ \E p \in DynPlaces(value) : \E q, r \in InsideDyn(value, p) :
        /\ NodeAt(value, q).id[1] = 0
        /\ NodeAt(value, r).id[1] = 1
        /\ NodeAt(out.val, r) # NodeAt(value, r)

\* The calls of f a walk from depth start makes when the nodes tagged with
\* tags are what raises the depth of their contents
CallsExpected(v, start, tags) ==
    {<<p, start + CountAbove(v, p, tags)>> : p \in TyPaths(v)}

CallsMade(log) == {log[i] : i \in 1..Len(log)}

C4_ShiftThenSubst ==
    hist = <<"shift_bound_vars", "subst_bound_vars_at_depth">> =>
        LET direct == SubstBoundVars(value, substs)
        IN  /\ out.status = direct.status
            /\ out.status = "ok" =>
                /\ out.val = ShiftBoundVars(direct.val, depth).val
                /\ (depth = 0 \/ Closed(substs)) => out.val = direct.val

\* C4 as stated: the two results are equal for every s that covers t.
C4_AsStated ==
    (hist = <<"shift_bound_vars", "subst_bound_vars_at_depth">>
        /\ Covers(substs, value, 0)) =>
        /\ out.status = "ok"
        /\ out.val = SubstBoundVars(value, substs).val

\* C4 witness: a shift by n > 0 followed by a substitution at depth n that
\* replaced a variable, with an element of s that has a free variable.
C4_Witness ==
    /\ hist = <<"shift_bound_vars", "subst_bound_vars_at_depth">>
    /\ depth > 0
    /\ out.status = "ok"
    /\ ~Closed(substs)
    /\ \E p \in TyPaths(value) : FreeAt(value, p, 0)
    /\ out.val # SubstBoundVars(value, substs).val

(***************************************************************************)
(* Statements about Binders.                                               *)
(***************************************************************************)
\* The value inside a Binders and its num_binders
Inner(b) == b.args[1]

NumBinders(b) == b.id[1]

\* C5: Binders::new(k, Substs::bound_vars(params, depth)).subst(s) with s of
\* length k = params.len() returns a Substs whose element at every position
\* i is s[i], whatever the depth.
C5_IdentitySubst ==
    \A k \in 0..MaxLen, d \in 0..MaxDebruijn :
        (/\ hist = <<"Binders::subst">>
         /\ value = Binders(k, SubstsOf(BoundVarsSubsts(k, d)))
         /\ Len(substs) = k) =>
            /\ out.status = "ok"
            /\ out.val.tag = "Substs"
            /\ Len(out.val.args) = k
            /\ \A i \in 1..k : out.val.args[i] = substs[i]

\* C5 witness: two parameters bound at a depth above 0, substituted by a
\* list whose elements have bound variables of their own.
C5_Witness ==
    /\ hist = <<"Binders::subst">>
    /\ value = Binders(2, SubstsOf(BoundVarsSubsts(2, 1)))
    /\ Len(substs) = 2
    /\ substs[1] # substs[2]
    /\ ~Closed(substs)
    /\ out.status = "ok"

\* No free variable of the value inside b has an index outside b's binders
WellFormed(b) ==
    \A p \in TyPaths(Inner(b)) :
        FreeAt(Inner(b), p, 0) => NodeAt(Inner(b), p).id[2] < NumBinders(b)

\* C8 as stated: subst_prefix(substs) fails an assertion when substs.len() >=
\* num_binders; otherwise it returns a Binders with num_binders reduced by
\* substs.len() in which the variables of index >= substs.len() are still
\* Bound references.
C8_AsStated ==
    (hist = <<"Binders::subst_prefix">> /\ WellFormed(value)) =>
        IF Len(substs) >= NumBinders(value)
        THEN out.status = "assertion_failed"
        ELSE /\ out.status = "ok"
             /\ out.val.tag = "Binders"
             /\ NumBinders(out.val) = NumBinders(value) - Len(substs)
             /\ \A p \in TyPaths(Inner(value)) :
                    (/\ FreeAt(Inner(value), p, 0)
                     /\ NodeAt(Inner(value), p).id[2] >= Len(substs)) =>
                        NodeAt(Inner(out.val), p).tag = "Bound"

\* C9: Binders::subst(substs) fails an assertion whenever substs.len() #
\* num_binders; with equal lengths it is value.subst_bound_vars(substs), in
\* which every Bound variable of the value that is free at depth 0 has been
\* replaced by its element of substs (shifted by the binders above it).
C9_BindersSubst ==
    hist = <<"Binders::subst">> =>
        IF Len(substs) # NumBinders(value)
        THEN out.status = "assertion_failed"
        ELSE /\ out.status = IF Covers(substs, Inner(value), 0)
                             THEN "ok" ELSE "index_out_of_bounds"
             /\ out.status = "ok" =>
                 \A p \in TyPaths(Inner(value)) :
                     IF FreeAt(Inner(value), p, 0)
                     THEN NodeAt(out.val, p) =
                            ShiftBoundVars(substs[NodeAt(Inner(value), p).id[2] + 1],
                                           BindersAbove(Inner(value), p)).val
                     ELSE NodeAt(out.val, p).tag = NodeAt(Inner(value), p).tag

\* C9 witness: a subst of matching arity 2 that replaced a free variable
\* under a Dyn and left the Dyn's own variable.
C9_Witness ==
    /\ hist = <<"Binders::subst">>
    /\ Len(substs) = NumBinders(value)
    /\ Len(substs) = 2
    /\ out.status = "ok"
    /\ \E p, q \in TyPaths(Inner(value)) :
        /\ FreeAt(Inner(value), p, 0)
        /\ BindersAbove(Inner(value), p) = 1
        /\ NodeAt(Inner(value), q).tag = "Bound"
        /\ ~FreeAt(Inner(value), q, 0)
        /\ NodeAt(out.val, p) # NodeAt(Inner(value), p)

(***************************************************************************)
(* Statements about equals_ctor.                                           *)
(***************************************************************************)
\* The variants equals_ctor has an arm for
CtorTags ==
    {"Adt", "Slice", "Array", "FnDef", "OpaqueType", "AssociatedType",
     "ForeignType", "Closure", "Ref", "RawPtr", "Function", "Tuple", "Str",
     "Never", "Scalar"}

\* C6 (as amended): for the variants that are type constructors (Adt, Slice,
\* Array, FnDef, OpaqueType, AssociatedType, ForeignType, Closure, Ref,
\* RawPtr, Function, Tuple, Str, Never, Scalar) x == y implies
\* x.equals_ctor(&y), so x.equals_ctor(&x) is true; for every other variant
\* (Unknown, Bound, Placeholder, InferenceVar, Dyn, Projection, Opaque)
\* equals_ctor is false, also of a value and itself.
C6_OverApproximates ==
    hist = <<"equals_ctor">> =>
        /\ (value = other /\ value.tag \in CtorTags) => eq
        /\ (value.tag \notin CtorTags \/ other.tag \notin CtorTags) => ~eq

\* C6 as stated: x == y implies x.equals_ctor(&y) for every variant.
C6_AsStated ==
    (hist = <<"equals_ctor">> /\ value = other) => eq

\* C6 witness: a closure type compared with itself.
C6_Witness ==
    /\ hist = <<"equals_ctor">>
    /\ value = other
    /\ value.tag = "Closure"
    /\ eq

\* The lists that may take the place of v's top-level substs
ArgsLike(v) ==
    IF v.tag \in SubstsTags
    THEN [1..Len(v.args) -> {Str, Unknown, Bound(0, 0)}]
    ELSE {v.args}

WithArgs(v, s) == [v EXCEPT !.args = s]

\* C7: equals_ctor is symmetric, its result does not change when the
\* top-level substs of either side are replaced by others of the same
\* length, two Ref or two RawPtr are equal constructors exactly when their
\* mutability is equal, and two Function exactly when num_args and FnSig are.
C7_SymmetricIgnoresSubsts ==
    hist = <<"equals_ctor">> =>
        /\ eq = EqualsCtor(other, value)
        /\ \A s \in ArgsLike(value), r \in ArgsLike(other) :
                EqualsCtor(WithArgs(value, s), WithArgs(other, r)) = eq
        /\ (Both(value, other, "Ref") \/ Both(value, other, "RawPtr")) =>
                (eq <=> value.id[1] = other.id[1])
        /\ Both(value, other, "Function") =>
                (eq <=> (value.id[1] = other.id[1] /\ value.id[2] = other.id[2]))

\* C7 witness: two references of the same mutability and different substs.
C7_Witness ==
    /\ hist = <<"equals_ctor">>
    /\ Both(value, other, "Ref")
    /\ value.id = other.id
    /\ value.args # other.args
    /\ eq

(***************************************************************************)
(* Statements about SubstsBuilder.                                         *)
(***************************************************************************)
\* C10: after any sequence of push, use_parent_substs and fill calls,
\* build() succeeds exactly when the builder holds param_count elements, and
\* then yields a Substs of length param_count holding the elements in the
\* order they were handed in; with fewer or more elements it fails the
\* assertion and yields no Substs.
C10_Build ==
    hist = <<"build">> =>
        /\ bstate = "built" <=> Len(vec) = param_count
        /\ bstate = "built" => (built = inserted /\ Len(built) = param_count)
        /\ bstate # "built" => (bstate = "panicked" /\ built = <<>>)

\* C10 witness: a build that succeeded with two different elements.
C10_Witness ==
    /\ hist = <<"build">>
    /\ bstate = "built"
    /\ param_count = 2
    /\ built[1] # built[2]

\* The Unknown elements that fill_with_unknown has to append to a vec of
\* length n
Missing(n) == [i \in 1..(param_count - n) |-> Unknown]

\* C11 as stated: in every builder state that push and use_parent_substs
\* reach, fill_with_unknown() returns a builder whose vec is the vec it had
\* followed by exactly the Unknown elements that were missing, param_count
\* elements in all.
C11_AsStated ==
    [][hist' = <<"fill_with_unknown">> =>
        /\ bstate' = "building"
        /\ vec' = vec \o Missing(Len(vec))
        /\ Len(vec') = param_count]_vars

\* C11 where the vec is not longer than param_count: there the call returns
\* as stated.
C11_WithinParamCount ==
    [][(hist' = <<"fill_with_unknown">> /\ Len(vec) <= param_count) =>
        /\ bstate' = "building"
        /\ vec' = vec \o Missing(Len(vec))
        /\ Len(vec') = param_count]_vars

\* C11 where the vec is longer than param_count: the call does not return.
C11_Overfull ==
    [][(hist' = <<"fill_with_unknown">> /\ Len(vec) > param_count) =>
        bstate' \in {"panicked", "diverged"}]_vars

(***************************************************************************)
(* Statements about apply_substs.                                          *)
(***************************************************************************)
\* The variants that carry a top-level substs slot
SlotTags ==
    {"Adt", "Slice", "Array", "RawPtr", "Ref", "FnDef", "Function", "Tuple",
     "OpaqueType", "AssociatedType", "Closure"}

\* C12: apply_substs(new) on a variant with a top-level substs slot returns
\* the same constructor with the same payload and the slot equal to new when
\* new.len() is the old length, and fails the assertion when the lengths
\* differ; on every other variant it returns the value unchanged.
C12_ApplySubsts ==
    hist = <<"apply_substs">> =>
        IF value.tag \in SlotTags
        THEN IF Len(substs) = Len(value.args)
             THEN /\ out.status = "ok"
                  /\ out.val.tag = value.tag
                  /\ out.val.id = value.id
                  /\ out.val.args = substs
             ELSE out.status = "assertion_failed"
        ELSE /\ out.status = "ok"
             /\ out.val = value

\* C12 witness: a type with two arguments that got two other arguments.
C12_Witness ==
    /\ hist = <<"apply_substs">>
    /\ value.tag = "Adt"
    /\ Len(value.args) = 2
    /\ Len(substs) = 2
    /\ substs # value.args
    /\ out.status = "ok"
    /\ out.val.args = substs

(***************************************************************************)
(* Statements about CallableSig.                                           *)
(***************************************************************************)
\* C13: Ty::fn_ptr(CallableSig::from_params_and_return(ps, r, v)) is a
\* Function whose num_args is ps.len(), and its callable_sig() has
\* params() == ps, ret() == r and the variadic flag v.
C13_FnPtrRoundTrip ==
    (Len(hist) >= 2 /\ SubSeq(hist, 1, 2) = <<"from_params_and_return", "fn_ptr">>) =>
        /\ fn_ty.status = "ok"
        /\ fn_ty.val.tag = "Function"
        /\ fn_ty.val.id[1] = Len(substs)
        /\ (Len(hist) >= 3 /\ hist[3] = "callable_sig") =>
            /\ sig.status = "ok"
            /\ sig.val.tag = "CallableSig"
            /\ sig.val.id[1] = is_varargs
            /\ (Len(hist) = 4 /\ hist[4] = "params") => out = Ok(TySlice(substs), <<>>)
            /\ (Len(hist) = 4 /\ hist[4] = "ret") => out = Ok(value, <<>>)

\* C13 witness: params [Scalar(1), Scalar(2)], return Str, through fn_ptr and
\* callable_sig, and params() asked of the result.
C13_Witness ==
    /\ hist = <<"from_params_and_return", "fn_ptr", "callable_sig", "params">>
    /\ substs = <<Scalar(1), Scalar(2)>>
    /\ value = Str
    /\ fn_ty.val.id[1] = 2
    /\ out.val.args = substs

\* C14 as stated: the CallableSig that from_params_and_return, from_fn_ptr or
\* from_substs returns has a non-empty params_and_return, and params() and
\* ret() asked of it do not fail.
C14_AsStated ==
    (hist # <<>> /\ hist[1] \in Constructors) =>
        /\ Len(sig.val.args) >= 1
        /\ (Len(hist) = 2 /\ hist[2] \in {"params", "ret"}) => out.status = "ok"

\* C14 for from_params_and_return alone: there the list is the parameters
\* followed by the return type, and params() and ret() give them back.
C14_FromParamsAndReturn ==
    (hist # <<>> /\ hist[1] = "from_params_and_return") =>
        /\ Len(sig.val.args) = Len(substs) + 1
        /\ Last(sig.val.args) = value
        /\ hist = <<"from_params_and_return", "params">> => out = Ok(TySlice(substs), <<>>)
        /\ hist = <<"from_params_and_return", "ret">> => out = Ok(value, <<>>)

(***************************************************************************)
(* Statements about shared storage.                                        *)
(***************************************************************************)
\* The references to cell a: those of the holders and those of the items of
\* the cells in use
Refs(a) ==
    Cardinality({h \in {"a", "b", "s"} :
        (CASE h = "a" -> holder_a [] h = "b" -> holder_b [] h = "s" -> holder_s).ptr = a})
    + Cardinality({c \in Cells \X (1..(MaxLen + 1)) :
        /\ heap[c[1]].rc > 0
        /\ c[2] <= Len(heap[c[1]].items)
        /\ heap[c[1]].items[c[2]].ptr = a})

\* Every strong count is the number of references to the cell
CountsSound == \A a \in Cells : heap[a].rc = Refs(a)

\* What the mutated holder sees is what the operation computes on the value
MutationDone ==
    LET now == Deref(heap, holder_a)
        was == IF holder_a.tag = "CallableSig"
               THEN CallableSig(value.args, value.id[2]) ELSE value
    IN  /\ hist = <<"shift_bound_vars">> => now = ShiftBoundVars(was, depth).val
        /\ hist = <<"subst_bound_vars">> => now = SubstBoundVars(was, substs).val
        /\ hist = <<"walk_mut_binders">> =>
                now = WalkMutBinders(was, ShiftFn(1), depth, <<>>).val
        /\ (hist = <<"apply_substs">> /\ out.status = "ok") =>
                now = ApplySubsts(was, substs).val

\* C15: after a mutation through walk_mut, walk_mut_binders, fold,
\* subst_bound_vars, shift_bound_vars or apply_substs of a value that shares
\* the storage of a Substs, of a Dyn's predicates or of a CallableSig with
\* another holder, the other holder sees the value it saw before, and so
\* does the holder of the Substs argument.
C15_CopyOnWrite ==
    hist # <<>> =>
        /\ Deref(heap, holder_b) = seen
        /\ Deref(heap, holder_s) = SubstsOf(substs)

\* C15 witness: a substitution through a holder whose clone another holder
\* keeps, which changed what the first holder sees.
C15_Witness ==
    /\ hist = <<"subst_bound_vars">>
    /\ seen = value
    /\ Deref(heap, holder_a) # value
    /\ Deref(heap, holder_b) = value
    /\ holder_a.ptr # holder_b.ptr

(***************************************************************************)
(* Statements about walk.                                                  *)
(***************************************************************************)
\* p lies strictly below q
Below(p, q) == Len(p) > Len(q) /\ SubSeq(p, 1, Len(q)) = q

\* p and q lie in different elements of one list, p in the earlier one
EarlierBranch(p, q) ==
    \E k \in 1..Len(p) :
        /\ k <= Len(q)
        /\ SubSeq(p, 1, k - 1) = SubSeq(q, 1, k - 1)
        /\ p[k] < q[k]

\* C16: walk(f) calls f exactly once for every Ty contained in the value
\* (through substs, Function substs, Projection / Opaque parameters and Dyn
\* predicates), on everything below a node before the node itself, and on
\* the elements of a list in the order of the list.
C16_PostOrder ==
    hist = <<"walk">> =>
        /\ Len(out.log) = Cardinality(TyPaths(value))
        /\ {out.log[i] : i \in 1..Len(out.log)} = TyPaths(value)
        /\ \A i, j \in 1..Len(out.log) :
            /\ Below(out.log[i], out.log[j]) => i < j
            /\ EarlierBranch(out.log[i], out.log[j]) => i < j

\* C16 witness: a walk of a value three levels deep with a list of two
\* types in it.
C16_Witness ==
    /\ hist = <<"walk">>
    /\ Len(out.log) >= 4
    /\ \E p, q \in TyPaths(value) :
        /\ Len(p) = 3
        /\ EarlierBranch(p, q)
        /\ Last(out.log) = <<>>

(***************************************************************************)
(* Statements about shift_bound_vars and about the substitution pass.      *)
(***************************************************************************)
\* C17: shift_bound_vars(n) raises by n the de Bruijn index of every Bound
\* variable whose debruijn is at least the number of binders entered above
\* it, keeps its positional index, leaves every Bound variable that a binder
\* in between captures (a Bound(0, k) inside a Dyn) and every other node as
\* it was; shift_bound_vars(0) returns an equal value.
C17_ShiftBoundVars ==
    hist = <<"shift_bound_vars">> =>
        /\ out.status = "ok"
        /\ \A p \in Paths(value) :
            LET node == NodeAt(value, p)
                after == NodeAt(out.val, p)
            IN  IF node.tag = "Bound"
                THEN IF node.id[1] >= BindersAbove(value, p)
                     THEN after = Bound(node.id[1] + depth, node.id[2])
                     ELSE after = node
                ELSE /\ after.tag = node.tag
                     /\ after.id = node.id
                     /\ Len(after.args) = Len(node.args)
        /\ depth = 0 => out.val = value

\* C17 witness: a shift by n > 0 of a value in which a Dyn holds its own
\* Bound(0, k) and a variable from outside.
C17_Witness ==
    /\ hist = <<"shift_bound_vars">>
    /\ depth > 0
    /\ \E p, q \in TyPaths(value) :
        /\ BindersAbove(value, p) = 1
        /\ BindersAbove(value, q) = 1
        /\ NodeAt(value, p) = Bound(0, 0)
        /\ NodeAt(out.val, p) = Bound(0, 0)
        /\ FreeAt(value, q, 0)
        /\ NodeAt(out.val, q).id[1] = NodeAt(value, q).id[1] + depth

\* The Bound variable b, met under above binders inside an element of
\* substs, after that element was shifted by d
ShiftedVar(b, above, d) ==
    IF b.id[1] >= above THEN Bound(b.id[1] + d, b.id[2]) ELSE b

\* C18: the substitution pass calls its closure exactly once for every node
\* of the original value, and what it puts in the place of a Bound variable
\* is not walked again: a Bound variable inside substs[i] is still that
\* variable afterwards, only shifted by the depth of the place.
C18_Simultaneous ==
    (hist \in {<<"subst_bound_vars">>, <<"subst_bound_vars_at_depth">>}
        /\ out.status = "ok") =>
        /\ Len(out.log) = Cardinality(TyPaths(value))
        /\ {out.log[i][1] : i \in 1..Len(out.log)} = TyPaths(value)
        /\ \A p \in TyPaths(value) :
            FreeAt(value, p, depth) =>
                LET e == substs[NodeAt(value, p).id[2] + 1]
                    d == depth + BindersAbove(value, p)
                IN  \A q \in TyPaths(e) :
                        NodeAt(e, q).tag = "Bound" =>
                            NodeAt(out.val, p \o q) =
                                ShiftedVar(NodeAt(e, q), BindersAbove(e, q), d)

\* C18 witness: a substitution that put in an element with a variable that a
\* second pass would replace.
C18_Witness ==
    /\ hist = <<"subst_bound_vars">>
    /\ out.status = "ok"
    /\ \E p \in TyPaths(value) :
        /\ FreeAt(value, p, depth)
        /\ ~Closed(<<substs[NodeAt(value, p).id[2] + 1]>>)
    /\ LET again == SubstBoundVars(out.val, substs)
       IN  again.status = "ok" /\ again.val # out.val

====
